---- MODULE Spec2Model ----
(***************************************************************************)
(* Model of the employee data-quality validators:                          *)
(*   ge_project/combined_pipeline.py  (CombinedPipeline, Deequ metrics ->  *)
(*                                     generated expectation suites)       *)
(*   ge_project/auto_validator.py     (GEAutoValidator, static suites)     *)
(*                                                                         *)
(* Text is modelled as a sequence of tokens, so that the substring tests   *)
(* and the split() calls of the source are computed, not assumed.  Numbers *)
(* read from a metrics file are fixed-point, in thousandths (0.95 is 950,  *)
(* a row count of 1000 is 1000000).                                        *)
(***************************************************************************)
EXTENDS Integers, Sequences, FiniteSets, TLC

VARIABLES
    csv_files,  \* the files of the run still to be processed, in glob order
    store,      \* self._min_max_store of the CombinedPipeline object
    last,       \* the latest generate_expectations_from_metrics call: its
                \* arguments, the store it found and the suite it built
    mode,       \* which driver runs: "combined" or "static"
    pc,         \* position of the driver: "start", "loop", "done"
    env,        \* what the run meets: statistics directory, context
    results,    \* the dict results of the driver, in insertion order
    fate,       \* per discovered file, how its processing ended
    reports,    \* the report files written, in order, each with its input file
    summary,    \* combined_pipeline_summary.json
    outcome     \* how the run ended: a dict, None, or an exception

driver_vars == <<mode, pc, env, results, fate, reports, summary, outcome>>

vars == <<csv_files, store, last, mode, pc, env, results, fate, reports,
          summary, outcome>>

\* ------------------------------------------------------------------------
\* Bounds of the model
\* ------------------------------------------------------------------------

\* longest "metrics" list read from one statistics file
MaxLen == 2

\* ------------------------------------------------------------------------
\* Text helpers (Python: `pat in s`, s.split(pat)[1], s.split(pat)[0])
\* ------------------------------------------------------------------------

MatchAt(s, pat, i) == SubSeq(s, i, i + Len(pat) - 1) = pat

Contains(s, pat) == \E i \in 1..(Len(s) - Len(pat) + 1) : MatchAt(s, pat, i)

FirstIndex(s, pat) ==
    CHOOSE i \in 1..(Len(s) - Len(pat) + 1) :
        /\ MatchAt(s, pat, i)
        /\ \A j \in 1..(i - 1) : ~MatchAt(s, pat, j)

\* s.split(pat)[0]
SplitHead(s, pat) ==
    IF Contains(s, pat) THEN SubSeq(s, 1, FirstIndex(s, pat) - 1) ELSE s

\* s.split(pat)[1], defined when pat occurs in s
SplitSecond(s, pat) ==
    SplitHead(SubSeq(s, FirstIndex(s, pat) + Len(pat), Len(s)), pat)

\* analyzer.split("Kind(")[1].split(")")[0]
ColumnOf(analyzer, pat) == SplitHead(SplitSecond(analyzer, pat), <<")">>)

\* ------------------------------------------------------------------------
\* Numbers
\* ------------------------------------------------------------------------

\* int(x) of Python: truncation toward zero of n/d
Trunc(n, d) == IF n >= 0 THEN n \div d ELSE -((-n) \div d)

Max2(a, b) == IF a >= b THEN a ELSE b

\* a value of a metrics record: a number (thousandths) or text that float()
\* rejects
Num(v) == [num |-> TRUE, v |-> v]
NotANumber == [num |-> FALSE, v |-> 0]

\* float(value) raises ValueError/TypeError unless the value is numeric
FloatOk(value) == value.num
Float(value) == value.v

\* int(float(value)), in units (the value is held in thousandths)
IntOfFloat(value) == Trunc(Float(value), 1000)

\* thresholds of the source, in thousandths: 0.95, 0.5, 0.99
HighCompleteness == 950
ModerateCompleteness == 500
HighUniqueness == 990

\* ------------------------------------------------------------------------
\* Analyzer patterns tested by generate_expectations_from_metrics
\* ------------------------------------------------------------------------

PatSize == <<"Size", "(", ")">>
PatCompleteness == <<"Completeness", "(">>
PatCompletenessAll == <<"Completeness", "(", "*", ")">>
PatUniqueness == <<"Uniqueness", "(">>
PatMinimum == <<"Minimum", "(">>
PatMaximum == <<"Maximum", "(">>
PatMinLength == <<"MinLength", "(">>

\* ------------------------------------------------------------------------
\* Expectations (rules) added to a suite
\* ------------------------------------------------------------------------

RowCountRule(lo, hi) ==
    [expectation_type |-> "expect_table_row_count_to_be_between",
     kwargs |-> [min_value |-> lo, max_value |-> hi]]

NotNullRule(column) ==
    [expectation_type |-> "expect_column_values_to_not_be_null",
     kwargs |-> [column |-> column]]

\* mostly is held in ten-thousandths (0.63 is 6300)
NotNullMostlyRule(column, mostly) ==
    [expectation_type |-> "expect_column_values_to_not_be_null",
     kwargs |-> [column |-> column, mostly |-> mostly]]

UniqueRule(column) ==
    [expectation_type |-> "expect_column_values_to_be_unique",
     kwargs |-> [column |-> column]]

LengthRule(column, lo) ==
    [expectation_type |-> "expect_column_value_lengths_to_be_between",
     kwargs |-> [column |-> column, min_value |-> lo, max_value |-> "None"]]

RangeRule(column, lo, hi) ==
    [expectation_type |-> "expect_column_values_to_be_between",
     kwargs |-> [column |-> column, min_value |-> lo, max_value |-> hi]]

ColumnListRule(columns) ==
    [expectation_type |-> "expect_table_columns_to_match_ordered_list",
     kwargs |-> [column_list |-> columns]]

\* suite.add_expectation(rule) on the suite being built
AddExpectation(suite, rule) == Append(suite, rule)

\* ------------------------------------------------------------------------
\* self._min_max_store: an attribute of the pipeline object, absent until
\* the first Minimum/Maximum metric; a dict (insertion-ordered) from column
\* to a dict holding 'min' and/or 'max'
\* ------------------------------------------------------------------------

NoStore == [has |-> FALSE, entries |-> <<>>]

\* a key of a bounds dict: absent, or present with a value
Absent == [set |-> FALSE, v |-> 0]
Present(v) == [set |-> TRUE, v |-> v]

\* self._min_max_store[column_name] = {}
EmptyBounds == [min |-> Absent, max |-> Absent]

\* 'min' in bounds, 'max' in bounds
HasKey(bounds, key) == bounds[key].set

StoreIndex(entries, column) ==
    CHOOSE i \in 1..Len(entries) : entries[i].column = column

\* column_name in self._min_max_store
InStore(entries, column) == \E i \in 1..Len(entries) : entries[i].column = column

\* the three statements that follow float(value) in the Minimum and the
\* Maximum branch
RecordBound(st, column, key, v) ==
    LET e0 == IF st.has THEN st.entries ELSE <<>>
        e1 == IF InStore(e0, column)
                THEN e0
                ELSE Append(e0, [column |-> column, bounds |-> EmptyBounds])
        i  == StoreIndex(e1, column)
    IN  [has |-> TRUE,
         entries |-> [e1 EXCEPT ![i].bounds[key] = Present(v)]]

\* ------------------------------------------------------------------------
\* generate_expectations_from_metrics
\* ------------------------------------------------------------------------

\* In every branch the value is parsed before anything is changed, so an
\* exception (caught by the except clause, which logs and continues) leaves
\* acc, which is [suite, store], as it was.

\* SizeExpectation without the max(0, ...) around the lower bound
SizeExpectation_Unclamped(acc, value) ==
    IF FloatOk(value) THEN
        LET row_count == IntOfFloat(value)
        IN  [acc EXCEPT !.suite = AddExpectation(acc.suite,
                RowCountRule(Trunc(row_count * 9, 10),
                             Trunc(row_count * 11, 10)))]
    ELSE acc

\* "Size expectation"
SizeExpectation(acc, value) ==
    IF FloatOk(value) THEN
        LET row_count == IntOfFloat(value)
        IN  [acc EXCEPT !.suite = AddExpectation(acc.suite,
                RowCountRule(Max2(0, Trunc(row_count * 9, 10)),
                             Trunc(row_count * 11, 10)))]
    ELSE acc

\* CompletenessExpectation with > 0.95 in place of >= 0.95
CompletenessExpectation_StrictHigh(acc, analyzer, value) ==
    IF FloatOk(value) THEN
        LET column_name == ColumnOf(analyzer, PatCompleteness)
            completeness_ratio == Float(value)
        IN  IF completeness_ratio > HighCompleteness THEN
                [acc EXCEPT !.suite =
                    AddExpectation(acc.suite, NotNullRule(column_name))]
            ELSE IF completeness_ratio >= ModerateCompleteness THEN
                [acc EXCEPT !.suite = AddExpectation(acc.suite,
                    NotNullMostlyRule(column_name, completeness_ratio * 9))]
            ELSE acc
    ELSE acc

\* "Completeness expectations"
CompletenessExpectation(acc, analyzer, value) ==
    IF FloatOk(value) THEN
        LET column_name == ColumnOf(analyzer, PatCompleteness)
            completeness_ratio == Float(value)
        IN  IF completeness_ratio >= HighCompleteness THEN
                [acc EXCEPT !.suite =
                    AddExpectation(acc.suite, NotNullRule(column_name))]
            ELSE IF completeness_ratio >= ModerateCompleteness THEN
                [acc EXCEPT !.suite = AddExpectation(acc.suite,
                    NotNullMostlyRule(column_name, completeness_ratio * 9))]
            ELSE acc
    ELSE acc

\* UniquenessExpectation with > 0.99 in place of >= 0.99
UniquenessExpectation_Strict(acc, analyzer, value) ==
    IF FloatOk(value) THEN
        LET column_name == ColumnOf(analyzer, PatUniqueness)
            uniqueness_ratio == Float(value)
        IN  IF uniqueness_ratio > HighUniqueness THEN
                [acc EXCEPT !.suite =
                    AddExpectation(acc.suite, UniqueRule(column_name))]
            ELSE acc
    ELSE acc

\* "Uniqueness expectations"
UniquenessExpectation(acc, analyzer, value) ==
    IF FloatOk(value) THEN
        LET column_name == ColumnOf(analyzer, PatUniqueness)
            uniqueness_ratio == Float(value)
        IN  IF uniqueness_ratio >= HighUniqueness THEN
                [acc EXCEPT !.suite =
                    AddExpectation(acc.suite, UniqueRule(column_name))]
            ELSE acc
    ELSE acc

\* MinimumBound that starts the bounds of the column afresh:
\* self._min_max_store[column_name] = {'min': min_value}
MinimumBound_Resets(acc, analyzer, value) ==
    IF FloatOk(value) THEN
        LET column_name == ColumnOf(analyzer, PatMinimum)
            st == RecordBound(acc.store, column_name, "min", Float(value))
            i == StoreIndex(st.entries, column_name)
        IN  [acc EXCEPT !.store = [st EXCEPT !.entries[i].bounds.max = Absent]]
    ELSE acc

\* the Minimum branch
MinimumBound(acc, analyzer, value) ==
    IF FloatOk(value) THEN
        [acc EXCEPT !.store = RecordBound(acc.store,
            ColumnOf(analyzer, PatMinimum), "min", Float(value))]
    ELSE acc

\* the Maximum branch
MaximumBound(acc, analyzer, value) ==
    IF FloatOk(value) THEN
        [acc EXCEPT !.store = RecordBound(acc.store,
            ColumnOf(analyzer, PatMaximum), "max", Float(value))]
    ELSE acc

\* MinLengthExpectation that also takes a length of 0
MinLengthExpectation_NonNegative(acc, analyzer, value) ==
    IF FloatOk(value) THEN
        LET column_name == ColumnOf(analyzer, PatMinLength)
            min_length == IntOfFloat(value)
        IN  IF min_length >= 0 THEN
                [acc EXCEPT !.suite = AddExpectation(acc.suite,
                    LengthRule(column_name, min_length))]
            ELSE acc
    ELSE acc

\* "String length expectations"
MinLengthExpectation(acc, analyzer, value) ==
    IF FloatOk(value) THEN
        LET column_name == ColumnOf(analyzer, PatMinLength)
            min_length == IntOfFloat(value)
        IN  IF min_length > 0 THEN
                [acc EXCEPT !.suite = AddExpectation(acc.suite,
                    LengthRule(column_name, min_length))]
            ELSE acc
    ELSE acc

\* the body of the for loop for one metric: the if/elif chain
ProcessMetric(acc, metric) ==
    LET analyzer == metric.analyzer
        value == metric.value
    IN
    IF Contains(analyzer, PatSize) THEN
        SizeExpectation(acc, value)
    ELSE IF Contains(analyzer, PatCompleteness)
            /\ ~Contains(analyzer, PatCompletenessAll) THEN
        CompletenessExpectation(acc, analyzer, value)
    ELSE IF Contains(analyzer, PatUniqueness) THEN
        UniquenessExpectation(acc, analyzer, value)
    ELSE IF Contains(analyzer, PatMinimum) THEN
        MinimumBound(acc, analyzer, value)
    ELSE IF Contains(analyzer, PatMaximum) THEN
        MaximumBound(acc, analyzer, value)
    ELSE IF Contains(analyzer, PatMinLength) THEN
        MinLengthExpectation(acc, analyzer, value)
    ELSE acc

\* the for loop over metrics_data.get("metrics", [])
RECURSIVE ScanMetrics(_, _)
ScanMetrics(acc, metrics) ==
    IF metrics = <<>> THEN acc
    ELSE ScanMetrics(ProcessMetric(acc, Head(metrics)), Tail(metrics))

\* "Add min/max range expectations": the loop over self._min_max_store
RECURSIVE AddRangeExpectations(_, _)
AddRangeExpectations(suite, entries) ==
    IF entries = <<>> THEN suite
    ELSE LET e == Head(entries)
             s1 == IF HasKey(e.bounds, "min") /\ HasKey(e.bounds, "max")
                     THEN AddExpectation(suite,
                            RangeRule(e.column, e.bounds.min.v, e.bounds.max.v))
                     ELSE suite
         IN  AddRangeExpectations(s1, Tail(entries))

\* AddStructural that pins the columns only of a suite that has rules
AddStructural_OnlyWithRules(suite, columns) ==
    IF suite = <<>> THEN suite ELSE AddExpectation(suite, ColumnListRule(columns))

\* "Add basic structural expectations"
AddStructural(suite, columns) == AddExpectation(suite, ColumnListRule(columns))

\* generate_expectations_from_metrics(self, table_name, metrics_data, df):
\* st is self._min_max_store on entry; the result holds the suite created
\* under suite_name and the store the object is left with
GenerateExpectations(st, table_name, metrics, columns) ==
    LET scanned == ScanMetrics([suite |-> <<>>, store |-> st], metrics)
        ranged == IF scanned.store.has
                    THEN AddRangeExpectations(scanned.suite, scanned.store.entries)
                    ELSE scanned.suite
    IN  [suite_name |-> table_name \o <<"_auto_generated_suite">>,
         suite |-> AddStructural(ranged, columns),
         store |-> scanned.store]

\* ------------------------------------------------------------------------
\* File names and table names
\* ------------------------------------------------------------------------

CsvFile(stem) == <<stem, ".csv">>

\* str.lower() of one token
LowerToken(tok) ==
    CASE tok = "EMPLOYEES" -> "employees"
      [] tok = "Titles" -> "titles"
      [] OTHER -> tok

\* s.lower()
Lower(s) == [i \in 1..Len(s) |-> LowerToken(s[i])]

\* s.replace('.csv', '')
RemoveCsv(s) == SelectSeq(s, LAMBDA tok : tok # ".csv")

\* filename.replace('.csv', '').lower(): process_table, detect_table_name
\* and generate_pipeline_summary
TableName(filename) == Lower(RemoveCsv(filename))

\* ------------------------------------------------------------------------
\* Tables and the statistics the metrics files may hold for them
\* ------------------------------------------------------------------------

\* the name Deequ gives a column-scoped analyzer, e.g. Completeness(title)
Analyzer(kind, column) == <<kind, "(", column, ")">>

Metric(analyzer, value) == [analyzer |-> analyzer, value |-> value]

\* list(df.columns) of the table's CSV file
ColumnsOf(t) ==
    CASE t = <<"employees">> -> <<<<"emp_no">>, <<"birth_date">>, <<"first_name">>>>
      [] t = <<"salaries">> -> <<<<"emp_no">>, <<"salary">>>>
      [] t = <<"titles">> -> <<<<"emp_no">>, <<"title">>>>
      [] t = <<"departments">> -> <<<<"dept_no">>, <<"dept_name">>>>
      [] t = <<"dept_emp">> -> <<<<"emp_no">>, <<"dept_no">>>>
      [] t = <<"dept_manager">> -> <<<<"dept_no">>, <<"emp_no">>>>
      [] t = <<"current_dept_emp">> -> <<<<"emp_no">>, <<"dept_no">>, <<"from_date">>>>
      [] t = <<"locations">> -> <<<<"loc_no">>>>
      [] OTHER -> <<<<"emp_no">>, <<"from_date">>, <<"to_date">>>>

\* the records a table's metrics file draws from
MetricsOf(t) ==
    CASE t = <<"employees">> ->
            {Metric(Analyzer("Minimum", "emp_no"), Num(5000)),
             Metric(Analyzer("Maximum", "emp_no"), Num(50000)),
             Metric(Analyzer("Maximum", "birth_date"), Num(9000)),
             Metric(Analyzer("Completeness", "first_name"), Num(1000))}
      [] t = <<"salaries">> ->
            {Metric(Analyzer("Minimum", "emp_no"), Num(7000)),
             Metric(Analyzer("Maximum", "emp_no"), NotANumber),
             Metric(Analyzer("Mean", "salary"), Num(1000)),
             Metric(Analyzer("Completeness", "salary"), Num(1000))}
      [] t = <<"titles">> ->
            {Metric(Analyzer("Completeness", "title"), Num(950)),
             Metric(Analyzer("Completeness", "title"), Num(949)),
             Metric(Analyzer("Completeness", "emp_no"), Num(700)),
             Metric(Analyzer("Completeness", "emp_no"), Num(300))}
      [] t = <<"departments">> ->
            {Metric(Analyzer("Completeness", "dept_name"), Num(500)),
             Metric(Analyzer("Completeness", "dept_name"), Num(499)),
             Metric(Analyzer("Completeness", "dept_no"), Num(1000)),
             Metric(Analyzer("Completeness", "*"), Num(1000))}
      [] t = <<"dept_emp">> ->
            {Metric(Analyzer("Uniqueness", "emp_no"), Num(995)),
             Metric(Analyzer("Uniqueness", "emp_no"), Num(990)),
             Metric(Analyzer("Uniqueness", "dept_no"), Num(989)),
             Metric(Analyzer("Uniqueness", "dept_no"), Num(900))}
      [] t = <<"dept_manager">> ->
            {Metric(PatSize, Num(1000000)),
             Metric(PatSize, Num(1009000)),
             Metric(PatSize, Num(5000)),
             Metric(PatSize, Num(-5000))}
      [] t = <<"current_dept_emp">> ->
            {Metric(Analyzer("MinLength", "dept_no"), Num(4000)),
             Metric(Analyzer("MinLength", "dept_no"), Num(0)),
             Metric(Analyzer("MinLength", "emp_no"), Num(2500)),
             Metric(<<"Uniqueness", "(">>, Num(1000))}
      [] OTHER ->
            {Metric(PatSize, NotANumber),
             Metric(Analyzer("Uniqueness", "emp_no"), NotANumber),
             Metric(Analyzer("Uniqueness", "emp_no"), Num(1000)),
             Metric(<<"Completeness", "(", "emp_no">>, Num(1000))}

\* the lists of at most n records over a set
RECURSIVE ListsUpTo(_, _)
ListsUpTo(S, n) ==
    IF n = 0 THEN {<<>>}
    ELSE LET shorter == ListsUpTo(S, n - 1)
         IN  shorter \cup {Append(l, m) : l \in shorter, m \in S}

MetricLists(t) == ListsUpTo(MetricsOf(t), MaxLen)

\* ------------------------------------------------------------------------
\* The loop of run_combined_pipeline over the discovered files, followed
\* through its generate_expectations_from_metrics calls: one call per file
\* that has statistics, all on the same CombinedPipeline object.  The
\* driver's own bookkeeping is followed in SpecDriver below.
\* ------------------------------------------------------------------------

\* list(self.dataset_path.glob("*.csv")): the directory order is not fixed
\* by the program; a full directory in one order and a directory of three
\* tables in the opposite order are explored
GlobOrders ==
    {<<CsvFile("employees"), CsvFile("salaries"), CsvFile("titles"),
       CsvFile("departments"), CsvFile("dept_emp"), CsvFile("dept_manager"),
       CsvFile("current_dept_emp"), CsvFile("dept_emp_latest_date")>>,
     <<CsvFile("titles"), CsvFile("salaries"), CsvFile("employees")>>}

NoCall ==
    [called |-> FALSE, table_name |-> <<>>, metrics |-> <<>>, columns |-> <<>>,
     pre |-> NoStore, suite |-> <<>>]

Call(st, table_name, metrics, columns, suite) ==
    [called |-> TRUE, table_name |-> table_name, metrics |-> metrics,
     columns |-> columns, pre |-> st, suite |-> suite]

NoSummary == [written |-> FALSE, total_tables_processed |-> 0, table_results |-> <<>>]

Init ==
    /\ csv_files \in GlobOrders
    /\ store = NoStore
    /\ last = NoCall
    /\ mode = "combined"
    /\ pc = "loop"
    /\ env = [deequ_dir |-> TRUE, context_ok |-> TRUE]
    /\ results = <<>>
    /\ fate = <<>>
    /\ reports = <<>>
    /\ summary = NoSummary
    /\ outcome = "running"

\* process_table for a table whose metrics file is missing, unreadable or
\* empty: load_deequ_metrics returns None (or {}) and the table is skipped
\* before any suite is generated
SkipTable ==
    /\ csv_files # <<>>
    /\ csv_files' = Tail(csv_files)
    /\ UNCHANGED <<store, last>>
    /\ UNCHANGED driver_vars

\* process_table for a table with a metrics file: the call of
\* generate_expectations_from_metrics
GenerateForTable ==
    /\ csv_files # <<>>
    /\ \E metrics \in MetricLists(TableName(Head(csv_files))) :
            LET table_name == TableName(Head(csv_files))
                columns == ColumnsOf(table_name)
                r == GenerateExpectations(store, table_name, metrics, columns)
            IN  /\ store' = r.store
                /\ last' = Call(store, table_name, metrics, columns, r.suite)
    /\ csv_files' = Tail(csv_files)
    /\ UNCHANGED driver_vars

Next == SkipTable \/ GenerateForTable

Spec == Init /\ [][Next]_vars

\* ------------------------------------------------------------------------
\* The static rule catalog of GEAutoValidator
\* ------------------------------------------------------------------------

\* self.expectation_suite_mappings.get(table_name): None for other tables
KnownTables ==
    {<<"employees">>, <<"salaries">>, <<"titles">>, <<"departments">>,
     <<"dept_emp">>, <<"dept_manager">>}

SuiteNameOf(table_name) == table_name \o <<"_suite">>

InSetRule(column, values) ==
    [expectation_type |-> "expect_column_values_to_be_in_set",
     kwargs |-> [column |-> column, value_set |-> values]]

Cols(names) == [i \in 1..Len(names) |-> <<names[i]>>]

\* create_expectation_suites: the suite stored under each name
StaticSuite(table_name) ==
    CASE table_name = <<"employees">> ->
            <<ColumnListRule(Cols(<<"emp_no", "birth_date", "first_name",
                                   "last_name", "gender", "hire_date">>)),
              UniqueRule(<<"emp_no">>),
              NotNullRule(<<"emp_no">>),
              NotNullRule(<<"first_name">>),
              NotNullRule(<<"last_name">>),
              InSetRule(<<"gender">>, <<"M", "F">>),
              RangeRule(<<"emp_no">>, 10001, 999999)>>
      [] table_name = <<"salaries">> ->
            <<ColumnListRule(Cols(<<"emp_no", "salary", "from_date", "to_date">>)),
              NotNullRule(<<"emp_no">>),
              NotNullRule(<<"salary">>),
              RangeRule(<<"salary">>, 30000, 200000)>>
      [] table_name = <<"titles">> ->
            <<ColumnListRule(Cols(<<"emp_no", "title", "from_date", "to_date">>)),
              NotNullRule(<<"emp_no">>),
              NotNullRule(<<"title">>)>>
      [] table_name = <<"departments">> ->
            <<ColumnListRule(Cols(<<"dept_no", "dept_name">>)),
              UniqueRule(<<"dept_no">>),
              UniqueRule(<<"dept_name">>),
              NotNullRule(<<"dept_no">>),
              NotNullRule(<<"dept_name">>)>>
      [] table_name = <<"dept_emp">> ->
            <<ColumnListRule(Cols(<<"emp_no", "dept_no", "from_date", "to_date">>)),
              NotNullRule(<<"emp_no">>),
              NotNullRule(<<"dept_no">>)>>
      [] table_name = <<"dept_manager">> ->
            <<ColumnListRule(Cols(<<"emp_no", "dept_no", "from_date", "to_date">>)),
              NotNullRule(<<"emp_no">>),
              NotNullRule(<<"dept_no">>),
              UniqueRule(<<"emp_no">>)>>
      [] OTHER -> <<>>

\* ------------------------------------------------------------------------
\* The two drivers: run_combined_pipeline and run_validation
\* ------------------------------------------------------------------------

\* the directories the driver runs are started on, in glob order
Listings ==
    {<<CsvFile("employees"), CsvFile("titles"), CsvFile("salaries")>>,
     <<CsvFile("EMPLOYEES"), CsvFile("locations"), CsvFile("employees")>>,
     <<<<"Titles", ".csv", ".csv">>, CsvFile("titles")>>,
     <<>>}

\* the "metrics" list of <table>_deequ_metrics.json in the statistics
\* directory of the driver runs, when the file is there
StatisticsFile(table_name) ==
    CASE table_name = <<"employees">> ->
            <<Metric(Analyzer("Minimum", "emp_no"), Num(5000)),
              Metric(Analyzer("Maximum", "emp_no"), Num(50000))>>
      [] table_name = <<"titles">> ->
            <<Metric(Analyzer("Completeness", "title"), Num(950)),
              Metric(Analyzer("Maximum", "emp_no"), NotANumber)>>
      [] table_name = <<"salaries">> ->
            <<Metric(Analyzer("Minimum", "emp_no"), Num(7000))>>
      [] OTHER -> <<>>

\* a checkpoint result: the suite that was run and the positions of the
\* rules that failed; None when there is no result
NoResult == [none |-> TRUE, suite |-> <<>>, failed |-> {}]
Result(suite, failed) == [none |-> FALSE, suite |-> suite, failed |-> failed]

\* what checkpoint.run() may report for a suite: every rule passes, the
\* first rule fails, every rule fails
FailureSets(suite) == {{}, {1}, 1..Len(suite)}

\* d[key] = value on a dict held as a sequence of entries in insertion order
DictSet(d, key, value) ==
    IF \E i \in 1..Len(d) : d[i].key = key
    THEN [i \in 1..Len(d) |-> IF d[i].key = key
                                THEN [key |-> key, value |-> value] ELSE d[i]]
    ELSE Append(d, [key |-> key, value |-> value])

Keys(d) == {d[i].key : i \in 1..Len(d)}

\* StoreResult that also enters a None result
StoreResult_Always(d, filename, result) == DictSet(d, filename, result)

\* "if result: results[csv_file.name] = result"
StoreResult(d, filename, result) ==
    IF result.none THEN d ELSE DictSet(d, filename, result)

\* the report file of a table: f"{table_name}_combined_validation_results.json"
\* and f"{table_name}_validation_results.json"
CombinedReportFile(table_name) == table_name \o <<"_combined_validation_results.json">>

StaticReportFile(table_name) == table_name \o <<"_validation_results.json">>

\* SaveResults that writes a report only for a result without failed rules
SaveResults_OnlyOnSuccess(written, json_file, filename, result, io_ok) ==
    IF io_ok /\ result.failed = {}
    THEN Append(written, [path |-> json_file, filename |-> filename])
    ELSE written

\* save_combined_results / save_validation_results: open(json_file, 'w') and
\* json.dump, unless an exception is met (it is logged).  written is the
\* sequence of the writes done so far: the path written and the input file
\* whose result it holds.
SaveResults(written, json_file, filename, result, io_ok) ==
    IF io_ok
    THEN Append(written, [path |-> json_file, filename |-> filename])
    ELSE written

\* run_combined_pipeline up to its loop: "loop" when the loop is entered,
\* else how the run ends
StartCombined(e, files) ==
    IF ~e.deequ_dir THEN "returned_none"
    ELSE IF ~e.context_ok THEN "raised"
    ELSE IF files = <<>> THEN "returned_none"
    ELSE "loop"

\* run_validation up to its loop
StartStatic(e, files) ==
    IF ~e.context_ok THEN "raised"
    ELSE IF files = <<>> THEN "returned_none"
    ELSE "loop"

InitDriver ==
    /\ mode \in {"combined", "static"}
    /\ csv_files \in Listings
    /\ env \in [deequ_dir : BOOLEAN, context_ok : BOOLEAN]
    /\ mode = "static" => env.deequ_dir
    /\ pc = "start"
    /\ store = NoStore
    /\ last = NoCall
    /\ results = <<>>
    /\ fate = [i \in 1..Len(csv_files) |-> [filename |-> csv_files[i], end |-> "pending"]]
    /\ reports = <<>>
    /\ summary = NoSummary
    /\ outcome = "running"

\* the statements of run_combined_pipeline / run_validation before the loop
Start ==
    /\ pc = "start"
    /\ LET next == IF mode = "combined" THEN StartCombined(env, csv_files)
                                         ELSE StartStatic(env, csv_files)
       IN  /\ pc' = IF next = "loop" THEN "loop" ELSE "done"
           /\ outcome' = IF next = "loop" THEN outcome ELSE next
    /\ UNCHANGED <<csv_files, store, last, mode, env, results, fate, reports, summary>>

\* the position, in the listing, of the file at the head of csv_files
Position == Len(fate) - Len(csv_files) + 1

\* how process_table can end for a file
CombinedEnds ==
    {"csv_error", "no_metrics", "generate_error", "execution_error",
     "report_error", "ok"}

\* one iteration of the loop of run_combined_pipeline: process_table and
\* the if that follows it
ProcessTable ==
    /\ mode = "combined"
    /\ pc = "loop"
    /\ csv_files # <<>>
    /\ \E end \in CombinedEnds :
        LET filename == Head(csv_files)
            table_name == TableName(filename)
            columns == ColumnsOf(table_name)
            metrics == StatisticsFile(table_name)
            g == GenerateExpectations(store, table_name, metrics, columns)
        IN  /\ fate' = [fate EXCEPT ![Position].end = end]
            /\ IF end \in {"csv_error", "no_metrics", "generate_error"}
               THEN \* read_csv raised, load_deequ_metrics gave None, or
                    \* create_expectation_suite raised: None is returned
                    /\ results' = StoreResult(results, filename, NoResult)
                    /\ UNCHANGED <<store, last, reports>>
               ELSE /\ store' = g.store
                    /\ last' = Call(store, table_name, metrics, columns, g.suite)
                    /\ IF end = "execution_error"
                       THEN \* checkpoint.run() raised: None is returned
                            /\ results' = StoreResult(results, filename, NoResult)
                            /\ UNCHANGED reports
                       ELSE \E failed \in FailureSets(g.suite) :
                            /\ results' = StoreResult(results, filename,
                                                      Result(g.suite, failed))
                            /\ reports' = SaveResults(reports,
                                    CombinedReportFile(table_name), filename,
                                    Result(g.suite, failed), end = "ok")
    /\ csv_files' = Tail(csv_files)
    /\ UNCHANGED <<mode, pc, env, summary, outcome>>

\* how validate_file can end for a file of a known table
StaticEnds == {"csv_error", "execution_error", "report_error", "ok"}

\* one iteration of the loop of run_validation: validate_file and the if
\* that follows it
ValidateFile ==
    /\ mode = "static"
    /\ pc = "loop"
    /\ csv_files # <<>>
    /\ LET filename == Head(csv_files)
           table_name == TableName(filename)
           suite == StaticSuite(table_name)
       IN  IF table_name \notin KnownTables
           THEN \* "No expectation suite found for table"
                /\ fate' = [fate EXCEPT ![Position].end = "unknown_table"]
                /\ results' = StoreResult(results, filename, NoResult)
                /\ UNCHANGED reports
           ELSE \E end \in StaticEnds :
                /\ fate' = [fate EXCEPT ![Position].end = end]
                /\ IF end \in {"csv_error", "execution_error"}
                   THEN /\ results' = StoreResult(results, filename, NoResult)
                        /\ UNCHANGED reports
                   ELSE \E failed \in FailureSets(suite) :
                        /\ results' = StoreResult(results, filename,
                                                  Result(suite, failed))
                        /\ reports' = SaveResults(reports,
                                StaticReportFile(table_name), filename,
                                Result(suite, failed), end = "ok")
    /\ csv_files' = Tail(csv_files)
    /\ UNCHANGED <<store, last, mode, pc, env, summary, outcome>>

\* one entry of summary["table_results"]
SummaryEntry(result) ==
    [validation_success |-> result.failed = {},
     total_expectations |-> Len(result.suite),
     successful_expectations |->
        Cardinality({i \in 1..Len(result.suite) : i \notin result.failed}),
     failed_expectations |->
        Cardinality({i \in 1..Len(result.suite) : i \in result.failed})]

\* the loop of generate_pipeline_summary over results.items()
RECURSIVE TableResults(_, _)
TableResults(acc, items) ==
    IF items = <<>> THEN acc
    ELSE TableResults(DictSet(acc, TableName(Head(items).key),
                              SummaryEntry(Head(items).value)),
                      Tail(items))

\* generate_pipeline_summary(results): the file, unless writing it fails
PipelineSummary(d, io_ok) ==
    IF io_ok
    THEN [written |-> TRUE, total_tables_processed |-> Len(d),
          table_results |-> TableResults(<<>>, d)]
    ELSE NoSummary

\* the end of run_combined_pipeline: the summary, then "return results"
FinishCombined ==
    /\ mode = "combined"
    /\ pc = "loop"
    /\ csv_files = <<>>
    /\ \E io_ok \in BOOLEAN : summary' = PipelineSummary(results, io_ok)
    /\ pc' = "done"
    /\ outcome' = "returned"
    /\ UNCHANGED <<csv_files, store, last, mode, env, results, fate, reports>>

\* the end of run_validation: build_data_docs (its failure is logged), then
\* "return results"
FinishStatic ==
    /\ mode = "static"
    /\ pc = "loop"
    /\ csv_files = <<>>
    /\ pc' = "done"
    /\ outcome' = "returned"
    /\ UNCHANGED <<csv_files, store, last, mode, env, results, fate, reports, summary>>

NextDriver ==
    \/ Start
    \/ ProcessTable
    \/ ValidateFile
    \/ FinishCombined
    \/ FinishStatic

SpecDriver == InitDriver /\ [][NextDriver]_vars

\* ------------------------------------------------------------------------
\* Reading a suite and a metrics list
\* ------------------------------------------------------------------------

IsRange(rule) == rule.expectation_type = "expect_column_values_to_be_between"
IsNotNull(rule) == rule.expectation_type = "expect_column_values_to_not_be_null"
IsUnique(rule) == rule.expectation_type = "expect_column_values_to_be_unique"
IsRowCount(rule) == rule.expectation_type = "expect_table_row_count_to_be_between"
IsColumnList(rule) ==
    rule.expectation_type = "expect_table_columns_to_match_ordered_list"

\* the positions of a suite that hold a given rule
Positions(suite, rule) == {i \in 1..Len(suite) : suite[i] = rule}

\* the positions of a metrics list that hold a record named kind(column)
Named(metrics, kind, column) ==
    {i \in 1..Len(metrics) : metrics[i].analyzer = Analyzer(kind, column)}

\* the records named kind(c) for some column c: the column c
IsNamed(metric, kind) ==
    /\ Len(metric.analyzer) = 4
    /\ metric.analyzer = Analyzer(kind, metric.analyzer[3])

NamedColumn(metric) == <<metric.analyzer[3]>>

RemoveAt(seq, i) == SubSeq(seq, 1, i - 1) \o SubSeq(seq, i + 1, Len(seq))

\* ------------------------------------------------------------------------
\* C1: a suite holds a value-range rule for a column only if the metrics
\* list of that very call holds a Minimum and a Maximum for the column:
\* no bound recorded for an earlier table contributes to a later suite.
\* ------------------------------------------------------------------------
C1_NoCarryOver ==
    last.called =>
        \A i \in 1..Len(last.suite) :
            IsRange(last.suite[i]) =>
                LET c == last.suite[i].kwargs.column
                IN  /\ \E j \in 1..Len(last.metrics) :
                            /\ Contains(last.metrics[j].analyzer, PatMinimum)
                            /\ ColumnOf(last.metrics[j].analyzer, PatMinimum) = c
                    /\ \E j \in 1..Len(last.metrics) :
                            /\ Contains(last.metrics[j].analyzer, PatMaximum)
                            /\ ColumnOf(last.metrics[j].analyzer, PatMaximum) = c

\* ------------------------------------------------------------------------
\* C2: every suite built holds exactly one column-list rule, and that rule
\* pins the column list the call was given, whatever the metrics (none
\* included).
\* ------------------------------------------------------------------------
C2_OneColumnListRule ==
    last.called =>
        /\ Cardinality({i \in 1..Len(last.suite) : IsColumnList(last.suite[i])}) = 1
        /\ Cardinality(Positions(last.suite, ColumnListRule(last.columns))) = 1

\* a call with no metrics at all, on an object that has built suites before
C2_Witness ==
    /\ last.called
    /\ last.metrics = <<>>
    /\ last.pre.has
    /\ last.columns # <<>>

\* ------------------------------------------------------------------------
\* C3: a call returns what any other call with the same table, metrics and
\* columns returns.  A call on a new pipeline object is such a call, so
\* every call must return what a new object returns for its arguments.
\* ------------------------------------------------------------------------
C3_Deterministic ==
    last.called =>
        last.suite =
            GenerateExpectations(NoStore, last.table_name, last.metrics,
                                 last.columns).suite

\* ------------------------------------------------------------------------
\* C4: a list with Minimum(col) = a and no Maximum(col) gives no value-range
\* rule for col; a list with Minimum(col) = a and Maximum(col) = b gives
\* exactly one, {col, a, b}, and the same one when the list is scanned in
\* the opposite order.
\* ------------------------------------------------------------------------
Reverse(seq) == [i \in 1..Len(seq) |-> seq[Len(seq) + 1 - i]]

RangePositions(suite, column) ==
    {i \in 1..Len(suite) : IsRange(suite[i]) /\ suite[i].kwargs.column = column}

C4_RangeFromBothBounds ==
    last.called =>
        \A i \in 1..Len(last.metrics) :
            (IsNamed(last.metrics[i], "Minimum") /\ FloatOk(last.metrics[i].value)) =>
                LET c == NamedColumn(last.metrics[i])
                    col == last.metrics[i].analyzer[3]
                    a == Float(last.metrics[i].value)
                    maxima == Named(last.metrics, "Maximum", col)
                    reversed == GenerateExpectations(last.pre, last.table_name,
                                    Reverse(last.metrics), last.columns).suite
                IN  /\ maxima = {} => RangePositions(last.suite, c) = {}
                    /\ \A j \in maxima :
                            FloatOk(last.metrics[j].value) =>
                                LET rule == RangeRule(c, a, Float(last.metrics[j].value))
                                IN  /\ Cardinality(RangePositions(last.suite, c)) = 1
                                    /\ Positions(last.suite, rule) # {}
                                    /\ Positions(reversed, rule) # {}

\* ------------------------------------------------------------------------
\* C5: a record with an unrecognized analyzer kind, a non-numeric value or
\* a malformed column text is skipped: the suite is the one the call would
\* have built from the list without that record.
\* ------------------------------------------------------------------------
KindPatterns ==
    {PatSize, PatCompleteness, PatUniqueness, PatMinimum, PatMaximum,
     PatMinLength}

KindNames ==
    {"Completeness", "Uniqueness", "Minimum", "Maximum", "MinLength"}

\* no kind of the engine occurs in the analyzer name
Unrecognized(metric) ==
    \A pat \in KindPatterns : ~Contains(metric.analyzer, pat)

\* a column-scoped kind whose parenthesized column is missing or not closed
MalformedColumn(metric) ==
    /\ \E kind \in KindNames : Contains(metric.analyzer, <<kind, "(">>)
    /\ \A kind \in KindNames : ~IsNamed(metric, kind)

BadRecord(metric) ==
    \/ Unrecognized(metric)
    \/ ~FloatOk(metric.value)
    \/ MalformedColumn(metric)

SuiteWithout(i) ==
    GenerateExpectations(last.pre, last.table_name, RemoveAt(last.metrics, i),
                         last.columns).suite

C5_BadRecordSkipped ==
    last.called =>
        \A i \in 1..Len(last.metrics) :
            BadRecord(last.metrics[i]) => last.suite = SuiteWithout(i)

\* ------------------------------------------------------------------------
\* C6: a Completeness(col) record with ratio r, col not the wildcard, gives
\* a not-null rule on col without "mostly" when r >= 0.95, a not-null rule
\* with mostly = 0.9 r when 0.5 <= r < 0.95, and no rule when r < 0.5;
\* Completeness(*) gives no rule.  Stated by counting: the suite holds each
\* such rule as many times as the list holds a record that asks for it, and
\* holds no other not-null rule on col.
\* ------------------------------------------------------------------------
NotNullPositions(suite, column) ==
    {i \in 1..Len(suite) : IsNotNull(suite[i]) /\ suite[i].kwargs.column = column}

CompletenessRecords(metrics, col) ==
    {i \in Named(metrics, "Completeness", col) : FloatOk(metrics[i].value)}

C6_CompletenessRules ==
    last.called =>
        \A k \in 1..Len(last.metrics) :
            (IsNamed(last.metrics[k], "Completeness") /\ FloatOk(last.metrics[k].value)) =>
                LET col == last.metrics[k].analyzer[3]
                    c == NamedColumn(last.metrics[k])
                    r == Float(last.metrics[k].value)
                    recs == CompletenessRecords(last.metrics, col)
                    same == {i \in recs : Float(last.metrics[i].value) = r}
                    emitting == {i \in recs : Float(last.metrics[i].value) >= 500}
                    high == {i \in recs : Float(last.metrics[i].value) >= 950}
                IN  IF col = "*"
                    THEN NotNullPositions(last.suite, c) = {}
                    ELSE /\ Cardinality(NotNullPositions(last.suite, c))
                                = Cardinality(emitting)
                         /\ r >= 950 =>
                                Cardinality(Positions(last.suite, NotNullRule(c)))
                                    = Cardinality(high)
                         /\ (r >= 500 /\ r < 950) =>
                                Cardinality(Positions(last.suite,
                                        NotNullMostlyRule(c, 9 * r)))
                                    = Cardinality(same)
                         /\ r < 500 =>
                                Positions(last.suite, NotNullMostlyRule(c, 9 * r)) = {}

\* Completeness(emp_no) = 0.7 has given the rule with mostly = 0.63
C6_Witness ==
    /\ last.called
    /\ \E k \in 1..Len(last.metrics) :
            last.metrics[k] = Metric(Analyzer("Completeness", "emp_no"), Num(700))
    /\ Positions(last.suite, NotNullMostlyRule(<<"emp_no">>, 6300)) # {}

\* ------------------------------------------------------------------------
\* C7 (as claimed): a Size record with count c gives a row-count rule with
\* min = floor(0.9 c) clamped to >= 0 and max = floor(1.1 c).
\* ------------------------------------------------------------------------
SizeRecords(metrics) ==
    {i \in 1..Len(metrics) : metrics[i].analyzer = PatSize /\ FloatOk(metrics[i].value)}

RowCountPositions(suite) == {i \in 1..Len(suite) : IsRowCount(suite[i])}

\* floor(n / d) for d > 0
Floor(n, d) == n \div d

C7_FloorBand ==
    last.called =>
        \A k \in SizeRecords(last.metrics) :
            LET c == IntOfFloat(last.metrics[k].value)
            IN  Positions(last.suite,
                    RowCountRule(Max2(0, Floor(9 * c, 10)), Floor(11 * c, 10))) # {}

\* C7 (amended): min = 0.9 c and max = 1.1 c, each truncated toward zero,
\* min then clamped to >= 0; one rule per Size record.  For c >= 0 the
\* truncation is the floor: c = 1000 gives {900, 1100}.
C7_TruncatedBand ==
    last.called =>
        /\ Cardinality(RowCountPositions(last.suite))
                = Cardinality(SizeRecords(last.metrics))
        /\ \A k \in SizeRecords(last.metrics) :
                LET c == IntOfFloat(last.metrics[k].value)
                    lo == IF c >= 0 THEN Floor(9 * c, 10) ELSE 0
                    hi == IF c >= 0 THEN Floor(11 * c, 10) ELSE -Floor(11 * (-c), 10)
                IN  Positions(last.suite, RowCountRule(lo, hi)) # {}

\* Size() = 1000 has given {900, 1100}, and Size() = -5 has given {0, -5}
C7_Witness ==
    /\ last.called
    /\ last.metrics = <<Metric(PatSize, Num(1000000)), Metric(PatSize, Num(-5000))>>
    /\ last.suite[1] = RowCountRule(900, 1100)
    /\ last.suite[2] = RowCountRule(0, -5)

\* ------------------------------------------------------------------------
\* C8: a Uniqueness(col) record with ratio u gives a uniqueness rule on col
\* if and only if u >= 0.99.  Stated by counting: the suite holds as many
\* uniqueness rules on col as the list holds Uniqueness(col) records with
\* u >= 0.99.
\* ------------------------------------------------------------------------
UniquePositions(suite, column) ==
    {i \in 1..Len(suite) : IsUnique(suite[i]) /\ suite[i].kwargs.column = column}

C8_UniquenessRules ==
    last.called =>
        \A k \in 1..Len(last.metrics) :
            (IsNamed(last.metrics[k], "Uniqueness") /\ FloatOk(last.metrics[k].value)) =>
                LET col == last.metrics[k].analyzer[3]
                    c == NamedColumn(last.metrics[k])
                    unique == {i \in Named(last.metrics, "Uniqueness", col) :
                                /\ FloatOk(last.metrics[i].value)
                                /\ Float(last.metrics[i].value) >= 990}
                IN  Cardinality(UniquePositions(last.suite, c)) = Cardinality(unique)

\* 0.995 has given a rule on emp_no and 0.989 none on dept_no
C8_Witness ==
    /\ last.called
    /\ last.metrics = <<Metric(Analyzer("Uniqueness", "emp_no"), Num(995)),
                        Metric(Analyzer("Uniqueness", "dept_no"), Num(989))>>
    /\ UniquePositions(last.suite, <<"emp_no">>) # {}
    /\ UniquePositions(last.suite, <<"dept_no">>) = {}

\* ------------------------------------------------------------------------
\* C9: the dict a driver returns holds exactly the discovered files whose
\* rule acquisition and execution both succeeded; a miss or a failure for
\* one file leaves no other file unprocessed.
\* ------------------------------------------------------------------------

\* the ends of a file whose rules were acquired and run (its report may
\* still have failed to be written)
Executed == {"ok", "report_error"}

FilesThat(ends) == {fate[i].filename : i \in {j \in 1..Len(fate) : fate[j].end \in ends}}

C9_MappingIsExecutedFiles ==
    /\ Keys(results) = FilesThat(Executed)
    /\ (pc = "done" /\ outcome = "returned") =>
            \A i \in 1..Len(fate) : fate[i].end # "pending"

\* three tables, the statistics file of the second is missing, the other
\* two are in the returned dict
C9_Witness ==
    /\ mode = "combined"
    /\ pc = "done"
    /\ outcome = "returned"
    /\ Len(fate) = 3
    /\ fate[1].end = "ok"
    /\ fate[2].end = "no_metrics"
    /\ fate[3].end = "ok"
    /\ Keys(results) = {fate[1].filename, fate[3].filename}

\* ------------------------------------------------------------------------
\* C10: under every combination of failure conditions (context
\* initialization failure, acquisition miss, unparsable metric, execution
\* failure, report I/O failure, missing statistics directory, no input file)
\* the run ends without raising and returns a dict from filename to result.
\* ------------------------------------------------------------------------
C10_AlwaysReturnsMapping == pc = "done" => outcome = "returned"

\* ------------------------------------------------------------------------
\* C11 (as claimed): at the end of a run every file in the returned dict has
\* had its report file written.
\* ------------------------------------------------------------------------
ReportedFiles == {reports[j].filename : j \in 1..Len(reports)}

C11_EveryResultReported ==
    (pc = "done" /\ outcome = "returned") => Keys(results) \subseteq ReportedFiles

\* C11 (amended): every file in the returned dict has had its report file
\* written unless writing that report failed (the failure is logged and the
\* file stays in the dict); a report is written only for a file of the dict,
\* and once per file.
C11_ReportedUnlessWriteFailed ==
    /\ ReportedFiles \subseteq Keys(results)
    /\ FilesThat({"ok"}) \subseteq ReportedFiles
    /\ Keys(results) \subseteq (ReportedFiles \cup FilesThat({"report_error"}))
    /\ \A i, j \in 1..Len(reports) :
            reports[i].filename = reports[j].filename => i = j

\* a returned dict of two files: the report of one was written, writing the
\* report of the other failed
C11_Witness ==
    /\ pc = "done"
    /\ outcome = "returned"
    /\ \E i, j \in 1..Len(fate) :
            /\ fate[i].end = "ok"
            /\ fate[j].end = "report_error"
            /\ {fate[i].filename, fate[j].filename} \subseteq Keys(results)
            /\ fate[i].filename \in ReportedFiles
            /\ fate[j].filename \notin ReportedFiles

\* ------------------------------------------------------------------------
\* C12: the summary of the statistics-driven driver is written after all
\* per-table processing has finished, and the tables it lists are exactly
\* the tables that succeeded through execution in the run: one entry per
\* file of the returned dict, none for a skipped or failed table.
\* ------------------------------------------------------------------------
ListedTables == Keys(summary.table_results)

C12_SummaryListsExecutedFiles ==
    summary.written =>
        /\ mode = "combined"
        /\ pc = "done"
        /\ FilesThat({"pending"}) = {}
        /\ ListedTables = {TableName(f) : f \in FilesThat(Executed)}
        /\ Len(summary.table_results) = Cardinality(Keys(results))

\* ------------------------------------------------------------------------
\* C15: within one run each report file is written at most once: two
\* distinct discovered files resolve to distinct report paths, also when
\* their names differ only in letter case or hold ".csv" more than once.
\* ------------------------------------------------------------------------
C15_ReportWrittenOnce ==
    \A i, j \in 1..Len(reports) :
        reports[i].path = reports[j].path => i = j

\* ------------------------------------------------------------------------
\* C17: in every summary the statistics-driven driver writes,
\* total_tables_processed is the number of entries of table_results, and for
\* each listed table total_expectations = successful_expectations +
\* failed_expectations.
\* ------------------------------------------------------------------------
C17_SummaryCountsConsistent ==
    summary.written =>
        /\ summary.total_tables_processed = Len(summary.table_results)
        /\ \A i \in 1..Len(summary.table_results) :
                LET entry == summary.table_results[i].value
                IN  entry.total_expectations =
                        entry.successful_expectations + entry.failed_expectations

\* ------------------------------------------------------------------------
\* C16 (as claimed): a MinLength(col) record with value v gives a
\* value-length rule on col with min = v and no max if v > 0, and no
\* value-length rule if v <= 0.  Stated by counting, as for C8, and with the
\* rule of each record with v > 0 named.
\* ------------------------------------------------------------------------
IsLength(rule) == rule.expectation_type = "expect_column_value_lengths_to_be_between"

LengthPositions(suite, column) ==
    {i \in 1..Len(suite) : IsLength(suite[i]) /\ suite[i].kwargs.column = column}

MinLengthRecords(metrics, col) ==
    {i \in Named(metrics, "MinLength", col) : FloatOk(metrics[i].value)}

C16_MinLengthExact ==
    last.called =>
        \A k \in 1..Len(last.metrics) :
            (IsNamed(last.metrics[k], "MinLength") /\ FloatOk(last.metrics[k].value)) =>
                LET col == last.metrics[k].analyzer[3]
                    c == NamedColumn(last.metrics[k])
                    v == Float(last.metrics[k].value)
                    positive == {i \in MinLengthRecords(last.metrics, col) :
                                    Float(last.metrics[i].value) > 0}
                IN  /\ Cardinality(LengthPositions(last.suite, c)) = Cardinality(positive)
                    /\ v > 0 =>
                        \E i \in LengthPositions(last.suite, c) :
                            /\ last.suite[i].kwargs.min_value * 1000 = v
                            /\ last.suite[i].kwargs.max_value = "None"

\* C16 (amended): with n the value truncated to an integer, the record gives
\* a value-length rule on col with min = n and no max if n > 0, and none
\* otherwise.
C16_MinLengthTruncated ==
    last.called =>
        \A k \in 1..Len(last.metrics) :
            (IsNamed(last.metrics[k], "MinLength") /\ FloatOk(last.metrics[k].value)) =>
                LET col == last.metrics[k].analyzer[3]
                    c == NamedColumn(last.metrics[k])
                    v == Float(last.metrics[k].value)
                    n == IF v >= 0 THEN v \div 1000 ELSE -((-v) \div 1000)
                    positive == {i \in MinLengthRecords(last.metrics, col) :
                                    Float(last.metrics[i].value) >= 1000}
                IN  /\ Cardinality(LengthPositions(last.suite, c)) = Cardinality(positive)
                    /\ n > 0 =>
                        \E i \in LengthPositions(last.suite, c) :
                            /\ last.suite[i].kwargs.min_value = n
                            /\ last.suite[i].kwargs.max_value = "None"

\* MinLength(dept_no) = 0 has given no rule and MinLength(emp_no) = 2.5 a
\* rule with min 2
C16_Witness ==
    /\ last.called
    /\ last.metrics = <<Metric(Analyzer("MinLength", "dept_no"), Num(0)),
                        Metric(Analyzer("MinLength", "emp_no"), Num(2500))>>
    /\ LengthPositions(last.suite, <<"dept_no">>) = {}
    /\ last.suite[1] = LengthRule(<<"emp_no">>, 2)

\* ------------------------------------------------------------------------
\* C14: for a metrics list in which no analyzer name occurs twice, every
\* permutation of the list gives the same set of rules: the rules do not
\* depend on the order in which the records are scanned.  The call is
\* compared with the call on each permutation, made in its place (on the
\* store the call found) and made after it (on the store the call left).
\* ------------------------------------------------------------------------
NoDuplicates(metrics) ==
    \A i, j \in 1..Len(metrics) :
        metrics[i].analyzer = metrics[j].analyzer => i = j

Reorderings(seq) ==
    LET n == Len(seq)
        bijections == {p \in [1..n -> 1..n] : \A i, j \in 1..n : p[i] = p[j] => i = j}
    IN  {[i \in 1..n |-> seq[p[i]]] : p \in bijections}

RulesOf(suite) == {suite[i] : i \in 1..Len(suite)}

RulesFor(st, metrics) ==
    RulesOf(GenerateExpectations(st, last.table_name, metrics, last.columns).suite)

C14_OrderIndependent ==
    (last.called /\ NoDuplicates(last.metrics)) =>
        \A permuted \in Reorderings(last.metrics) :
            /\ RulesFor(last.pre, permuted) = RulesOf(last.suite)
            /\ RulesFor(store, permuted) = RulesOf(last.suite)

\* Maximum(emp_no) was scanned before Minimum(emp_no) and the range rule is
\* there; the suite of the list in the other order is the same
C14_Witness ==
    /\ last.called
    /\ last.metrics = <<Metric(Analyzer("Maximum", "emp_no"), Num(50000)),
                        Metric(Analyzer("Minimum", "emp_no"), Num(5000))>>
    /\ RangeRule(<<"emp_no">>, 5000, 50000) \in RulesOf(last.suite)
    /\ RulesFor(last.pre, Reverse(last.metrics)) = RulesOf(last.suite)

\* ------------------------------------------------------------------------
\* C13: when a metrics list holds two or more records for the same kind and
\* column, the suite reflects only the last of them: it is the suite of the
\* list from which every record that is followed by a record of the same
\* analyzer name has been removed (the same rules, and as many of them).
\* ------------------------------------------------------------------------
LastOnly(metrics) ==
    LET keep(i) == \A j \in (i + 1)..Len(metrics) :
                        metrics[j].analyzer # metrics[i].analyzer
        F[i \in 0..Len(metrics)] ==
            IF i = 0 THEN <<>>
            ELSE IF keep(i) THEN Append(F[i - 1], metrics[i]) ELSE F[i - 1]
    IN  F[Len(metrics)]

C13_LastSeenWins ==
    last.called =>
        LET only == GenerateExpectations(last.pre, last.table_name,
                                         LastOnly(last.metrics), last.columns).suite
        IN  /\ RulesOf(last.suite) = RulesOf(only)
            /\ Len(last.suite) = Len(only)

====
